---- MODULE Spec2Model ----
(***************************************************************************)
(* Model of the grant contracts.                                           *)
(*                                                                         *)
(* Part I: the milestone contract, contracts/grant_contracts/src/lib.rs.   *)
(* One persistent key-value store holds Grant records under the grant id   *)
(* and Milestone records under the key built from the string               *)
(* "milestone:" ++ grant_id ++ ":" ++ milestone_id.  Every public function *)
(* is one atomic action; a call that returns Err or traps writes nothing.  *)
(* Each function is an operator giving the outcome of a call in the        *)
(* current state (the store it leaves and what it returns); the action of  *)
(* the function commits that outcome.                                      *)
(*                                                                         *)
(* Part II: the streaming contract, src/lib.rs, with its instance store    *)
(* (grants by number, Count, Arbiter), the ledger timestamp and the token  *)
(* transfers it orders.  The two contracts share nothing; each has its own *)
(* specification, which leaves the state of the other untouched.           *)
(***************************************************************************)
EXTENDS Integers, Sequences, FiniteSets, TLC

(***************************************************************************)
(* Bounds.                                                                 *)
(***************************************************************************)
\* i128 is scaled down to a two's complement integer of IntBits bits.
IntBits == 3
\* At most MaxMilestones milestone records are stored.
MaxMilestones == 2
\* The ledger timestamp stays within 0 .. MaxTime.
MaxTime == 2

(***************************************************************************)
(* Integers of the width of i128 (scaled).                                 *)
(***************************************************************************)
I128_MAX == 2 ^ (IntBits - 1) - 1
I128_MIN == -(2 ^ (IntBits - 1))
I128 == I128_MIN .. I128_MAX

\* The value a two's complement register holds after an overflowing result.
Wrap(x) == ((x - I128_MIN) % (2 ^ IntBits)) + I128_MIN

Overflows(x) == x \notin I128

(***************************************************************************)
(* Symbols, addresses, strings and the inputs the calls draw from.         *)
(***************************************************************************)
\* Symbols are strings of characters; ids "a" and "aa" are used for grants
\* and for milestones.
Symbols == { <<"a">>, <<"a", "a">> }

\* Addresses that can authorize a call, and those given as a grant's admin.
Addresses == {"alice", "bob"}
Admins == {"alice"}
Grantees == {"carol"}
Descriptions == {"design"}

Totals == {-1, 2}
Amounts == {-1, 1, I128_MAX}

\* Milestone.status
Pending == 0
Approved == 1
Released == 2

(***************************************************************************)
(* The persistent store.                                                   *)
(***************************************************************************)
\* "milestone:" ++ grant_id ++ ":" ++ milestone_id, as a string of tokens;
\* ":" is not a character of a Symbol.
MilestoneKey(grant_id, milestone_id) ==
    <<"milestone:">> \o grant_id \o <<":">> \o milestone_id

Keys == Symbols \cup { MilestoneKey(g, m) : g \in Symbols, m \in Symbols }

Absent == [kind |-> "absent"]

Grant(admin, grantee, total_amount, released_amount) ==
    [kind |-> "grant", admin |-> admin, grantee |-> grantee,
     total_amount |-> total_amount, released_amount |-> released_amount]

Milestone(amount, status, description) ==
    [kind |-> "milestone", amount |-> amount, status |-> status,
     description |-> description]

VARIABLES
    persistent,        \* env.storage().persistent(): key -> record or Absent
    ret,               \* outcome of the last call: Ok(value) or Err/trap, and its event
    overflow_checks,   \* whether the build traps on integer overflow (else it wraps)
    instance,          \* streaming contract: env.storage().instance()
    timestamp,         \* streaming contract: env.ledger().timestamp()
    transfer,          \* streaming contract: the token transfer of the last call
    history            \* streaming contract: record of the transfers made so far

\* The state of the streaming contract.
stream_vars == <<instance, timestamp, transfer, history>>

vars == <<persistent, ret, overflow_checks, instance, timestamp, transfer, history>>

has(key) == persistent[key] # Absent

NoEvent == << >>

\* Outcomes of a call to the function fn.
Ok(fn, val, event) ==
    [fn |-> fn, kind |-> "ok", val |-> val, err |-> "", event |-> event]
Err(fn, msg) ==
    [fn |-> fn, kind |-> "err", val |-> << >>, err |-> msg, event |-> NoEvent]
\* A trap (failed require_auth, arithmetic overflow) aborts the call.
Trap(fn, msg) ==
    [fn |-> fn, kind |-> "trap", val |-> << >>, err |-> msg, event |-> NoEvent]

MilestoneInit ==
    /\ persistent = [k \in Keys |-> Absent]
    /\ ret = Ok("none", << >>, NoEvent)
    /\ overflow_checks \in BOOLEAN
    /\ instance = << >>
    /\ timestamp = 0
    /\ transfer = << >>
    /\ history = << >>

StoredMilestones == { k \in Keys : persistent[k].kind = "milestone" }

\* The outcome of a call: the store it leaves and what it returns.
Outcome(store, r) == [persistent |-> store, ret |-> r]

\* The call fails: nothing is written.
Fail(r) == Outcome(persistent, r)

\* i128 `a + b` and `a - b`: the exact result x when it fits; otherwise the
\* call traps in a build with overflow checks and the register wraps in a
\* build without them.
Traps(x) == Overflows(x) /\ overflow_checks

(***************************************************************************)
(* create_grant                                                            *)
(***************************************************************************)
\* create_grant without the check for an existing grant.
create_grant_overwrite(caller, grant_id, admin, grantee, total_amount) ==
    IF caller # admin THEN Fail(Trap("create_grant", "AuthorizationFailure"))
    ELSE Outcome([persistent EXCEPT
                    ![grant_id] = Grant(admin, grantee, total_amount, 0)],
                 Ok("create_grant", grant_id, <<"grant", "created", grant_id>>))

create_grant(caller, grant_id, admin, grantee, total_amount) ==
    IF caller # admin THEN Fail(Trap("create_grant", "AuthorizationFailure"))
    ELSE IF has(grant_id) THEN Fail(Err("create_grant", "Grant already exists"))
    ELSE Outcome([persistent EXCEPT
                    ![grant_id] = Grant(admin, grantee, total_amount, 0)],
                 Ok("create_grant", grant_id, <<"grant", "created", grant_id>>))

(***************************************************************************)
(* add_milestone                                                           *)
(***************************************************************************)
\* add_milestone without the check for an existing milestone.
add_milestone_overwrite(caller, grant_id, milestone_id, amount, description) ==
    LET milestone_key == MilestoneKey(grant_id, milestone_id) IN
    IF ~has(grant_id) THEN Fail(Err("add_milestone", "Grant not found"))
    ELSE IF caller # persistent[grant_id].admin
         THEN Fail(Trap("add_milestone", "AuthorizationFailure"))
    ELSE Outcome([persistent EXCEPT
                    ![milestone_key] = Milestone(amount, Pending, description)],
                 Ok("add_milestone", milestone_id,
                    <<"milestone", "created", grant_id, milestone_id>>))

add_milestone(caller, grant_id, milestone_id, amount, description) ==
    LET milestone_key == MilestoneKey(grant_id, milestone_id) IN
    IF ~has(grant_id) THEN Fail(Err("add_milestone", "Grant not found"))
    ELSE IF caller # persistent[grant_id].admin
         THEN Fail(Trap("add_milestone", "AuthorizationFailure"))
    ELSE IF has(milestone_key)
         THEN Fail(Err("add_milestone", "Milestone already exists"))
    ELSE Outcome([persistent EXCEPT
                    ![milestone_key] = Milestone(amount, Pending, description)],
                 Ok("add_milestone", milestone_id,
                    <<"milestone", "created", grant_id, milestone_id>>))

(***************************************************************************)
(* approve_milestone                                                       *)
(***************************************************************************)
\* approve_milestone without the check for a milestone already released.
approve_milestone_no_released_check(caller, grant_id, milestone_id) ==
    LET milestone_key == MilestoneKey(grant_id, milestone_id)
        grant == persistent[grant_id]
        milestone == persistent[milestone_key]
        sum == grant.released_amount + milestone.amount
    IN
    IF ~has(grant_id) THEN Fail(Err("approve_milestone", "Grant not found"))
    ELSE IF caller # grant.admin
         THEN Fail(Trap("approve_milestone", "AuthorizationFailure"))
    ELSE IF ~has(milestone_key)
         THEN Fail(Err("approve_milestone", "Milestone not found"))
    ELSE IF Traps(sum)
         THEN Fail(Trap("approve_milestone", "ArithmeticOverflow"))
    ELSE IF Wrap(sum) > grant.total_amount
         THEN Fail(Err("approve_milestone", "Exceeds total grant amount"))
    ELSE Outcome([persistent EXCEPT
                    ![milestone_key] = [milestone EXCEPT !.status = Released],
                    ![grant_id] = [grant EXCEPT !.released_amount = Wrap(sum)]],
                 Ok("approve_milestone", milestone.amount,
                    <<"milestone", "released", grant_id, milestone_id,
                      milestone.amount>>))

\* approve_milestone storing the status Approved instead of Released.
approve_milestone_marks_approved(caller, grant_id, milestone_id) ==
    LET milestone_key == MilestoneKey(grant_id, milestone_id)
        grant == persistent[grant_id]
        milestone == persistent[milestone_key]
        sum == grant.released_amount + milestone.amount
    IN
    IF ~has(grant_id) THEN Fail(Err("approve_milestone", "Grant not found"))
    ELSE IF caller # grant.admin
         THEN Fail(Trap("approve_milestone", "AuthorizationFailure"))
    ELSE IF ~has(milestone_key)
         THEN Fail(Err("approve_milestone", "Milestone not found"))
    ELSE IF milestone.status = Released
         THEN Fail(Err("approve_milestone", "Milestone already released"))
    ELSE IF Traps(sum)
         THEN Fail(Trap("approve_milestone", "ArithmeticOverflow"))
    ELSE IF Wrap(sum) > grant.total_amount
         THEN Fail(Err("approve_milestone", "Exceeds total grant amount"))
    ELSE Outcome([persistent EXCEPT
                    ![milestone_key] = [milestone EXCEPT !.status = Approved],
                    ![grant_id] = [grant EXCEPT !.released_amount = Wrap(sum)]],
                 Ok("approve_milestone", milestone.amount,
                    <<"milestone", "released", grant_id, milestone_id,
                      milestone.amount>>))

approve_milestone(caller, grant_id, milestone_id) ==
    LET milestone_key == MilestoneKey(grant_id, milestone_id)
        grant == persistent[grant_id]
        milestone == persistent[milestone_key]
        \* grant.released_amount + milestone.amount, lines 189 and 200
        sum == grant.released_amount + milestone.amount
    IN
    IF ~has(grant_id) THEN Fail(Err("approve_milestone", "Grant not found"))
    ELSE IF caller # grant.admin
         THEN Fail(Trap("approve_milestone", "AuthorizationFailure"))
    ELSE IF ~has(milestone_key)
         THEN Fail(Err("approve_milestone", "Milestone not found"))
    ELSE IF milestone.status = Released
         THEN Fail(Err("approve_milestone", "Milestone already released"))
    ELSE IF Traps(sum)
         THEN Fail(Trap("approve_milestone", "ArithmeticOverflow"))
    ELSE IF Wrap(sum) > grant.total_amount
         THEN Fail(Err("approve_milestone", "Exceeds total grant amount"))
    ELSE Outcome([persistent EXCEPT
                    ![milestone_key] = [milestone EXCEPT !.status = Released],
                    ![grant_id] = [grant EXCEPT !.released_amount = Wrap(sum)]],
                 Ok("approve_milestone", milestone.amount,
                    <<"milestone", "released", grant_id, milestone_id,
                      milestone.amount>>))

(***************************************************************************)
(* Read accessors                                                          *)
(***************************************************************************)
get_milestone(grant_id, milestone_id) ==
    LET milestone_key == MilestoneKey(grant_id, milestone_id)
        milestone == persistent[milestone_key]
    IN
    IF ~has(milestone_key) THEN Fail(Err("get_milestone", "Milestone not found"))
    ELSE Outcome(persistent,
                 Ok("get_milestone",
                    <<milestone.amount, milestone.status, milestone.description>>,
                    NoEvent))

get_grant(grant_id) ==
    LET grant == persistent[grant_id] IN
    IF ~has(grant_id) THEN Fail(Err("get_grant", "Grant not found"))
    ELSE Outcome(persistent,
                 Ok("get_grant",
                    <<grant.admin, grant.grantee, grant.total_amount,
                      grant.released_amount>>,
                    NoEvent))

get_released_amount(grant_id) ==
    LET grant == persistent[grant_id] IN
    IF ~has(grant_id) THEN Fail(Err("get_released_amount", "Grant not found"))
    ELSE Outcome(persistent,
                 Ok("get_released_amount", grant.released_amount, NoEvent))

get_remaining_amount(grant_id) ==
    LET grant == persistent[grant_id]
        diff == grant.total_amount - grant.released_amount
    IN
    IF ~has(grant_id) THEN Fail(Err("get_remaining_amount", "Grant not found"))
    ELSE IF Traps(diff)
         THEN Fail(Trap("get_remaining_amount", "ArithmeticOverflow"))
    ELSE Outcome(persistent, Ok("get_remaining_amount", Wrap(diff), NoEvent))

(***************************************************************************)
(* The milestone contract as a state machine: each call is one atomic      *)
(* transaction that commits the outcome of its function.                   *)
(***************************************************************************)
CreateGrant ==
    \E caller \in Addresses, grant_id \in Symbols, admin \in Admins,
       grantee \in Grantees, total_amount \in Totals :
        LET o == create_grant(caller, grant_id, admin, grantee, total_amount)
        IN /\ persistent' = o.persistent
           /\ ret' = o.ret
           /\ UNCHANGED <<overflow_checks, stream_vars>>

\* A call that would store one more milestone than MaxMilestones is left out.
AddMilestone ==
    \E caller \in Addresses, grant_id \in Symbols, milestone_id \in Symbols,
       amount \in Amounts, description \in Descriptions :
        LET o == add_milestone(caller, grant_id, milestone_id, amount, description)
        IN /\ o.persistent = persistent
              \/ Cardinality(StoredMilestones) < MaxMilestones
           /\ persistent' = o.persistent
           /\ ret' = o.ret
           /\ UNCHANGED <<overflow_checks, stream_vars>>

ApproveMilestone ==
    \E caller \in Addresses, grant_id \in Symbols, milestone_id \in Symbols :
        LET o == approve_milestone(caller, grant_id, milestone_id)
        IN /\ persistent' = o.persistent
           /\ ret' = o.ret
           /\ UNCHANGED <<overflow_checks, stream_vars>>

GetMilestone ==
    \E grant_id \in Symbols, milestone_id \in Symbols :
        LET o == get_milestone(grant_id, milestone_id)
        IN /\ persistent' = o.persistent
           /\ ret' = o.ret
           /\ UNCHANGED <<overflow_checks, stream_vars>>

GetGrant ==
    \E grant_id \in Symbols :
        LET o == get_grant(grant_id)
        IN /\ persistent' = o.persistent
           /\ ret' = o.ret
           /\ UNCHANGED <<overflow_checks, stream_vars>>

GetReleasedAmount ==
    \E grant_id \in Symbols :
        LET o == get_released_amount(grant_id)
        IN /\ persistent' = o.persistent
           /\ ret' = o.ret
           /\ UNCHANGED <<overflow_checks, stream_vars>>

GetRemainingAmount ==
    \E grant_id \in Symbols :
        LET o == get_remaining_amount(grant_id)
        IN /\ persistent' = o.persistent
           /\ ret' = o.ret
           /\ UNCHANGED <<overflow_checks, stream_vars>>

MilestoneNext ==
    \/ CreateGrant
    \/ AddMilestone
    \/ ApproveMilestone
    \/ GetMilestone
    \/ GetGrant
    \/ GetReleasedAmount
    \/ GetRemainingAmount

MilestoneSpec == MilestoneInit /\ [][MilestoneNext]_vars

TypeOK ==
    /\ overflow_checks \in BOOLEAN
    /\ \A k \in Keys : persistent[k].kind \in {"absent", "grant", "milestone"}
    /\ \A g \in Symbols : persistent[g].kind \in {"absent", "grant"}
    /\ \A g \in Symbols : has(g) =>
          /\ persistent[g].total_amount \in I128
          /\ persistent[g].released_amount \in I128

(***************************************************************************)
(* Properties of the milestone contract.                                   *)
(***************************************************************************)
GrantIds == { g \in Symbols : has(g) }

IsMilestone(store, g, m) == store[MilestoneKey(g, m)].kind = "milestone"

IsReleased(store, g, m) ==
    /\ IsMilestone(store, g, m)
    /\ store[MilestoneKey(g, m)].status = Released

IsPending(store, g, m) ==
    /\ IsMilestone(store, g, m)
    /\ store[MilestoneKey(g, m)].status = Pending

RECURSIVE SumAmounts(_, _)
SumAmounts(g, ms) ==
    IF ms = {} THEN 0
    ELSE LET m == CHOOSE x \in ms : TRUE
         IN persistent[MilestoneKey(g, m)].amount + SumAmounts(g, ms \ {m})

\* Sum of the amounts of the milestones of grant g whose status is Released.
ReleasedSum(g) ==
    SumAmounts(g, { m \in Symbols : IsReleased(persistent, g, m) })

\* C1: every stored grant satisfies 0 <= released_amount <= total_amount, in
\* every reachable state, whatever the arguments of the calls were.
C1_ReleasedWithinTotal ==
    \A g \in GrantIds :
        /\ 0 <= persistent[g].released_amount
        /\ persistent[g].released_amount <= persistent[g].total_amount

\* C2: approve_milestone on a milestone that is already Released fails (with
\* "Milestone already released" when the grant's admin authorized the call)
\* and writes nothing; and released_amount holds the amount of every Released
\* milestone of the grant exactly once (as an i128 sum).
C2_NoDoubleRelease ==
    /\ \A c \in Addresses, g \in Symbols, m \in Symbols :
          IsReleased(persistent, g, m) =>
              LET o == approve_milestone(c, g, m)
              IN /\ o.persistent = persistent
                 /\ o.ret.kind # "ok"
                 /\ (c = persistent[g].admin =>
                       o.ret = Err("approve_milestone", "Milestone already released"))
    /\ \A g \in GrantIds : persistent[g].released_amount = Wrap(ReleasedSum(g))

\* C2 witness: a second approval of a Released milestone has been refused.
C2_Witness ==
    /\ ret = Err("approve_milestone", "Milestone already released")
    /\ \E g \in Symbols, m \in Symbols :
          /\ IsReleased(persistent, g, m)
          /\ persistent[g].released_amount = persistent[MilestoneKey(g, m)].amount

\* C3: an authorized approve_milestone on a Pending milestone fails with
\* "Exceeds total grant amount", writing nothing, exactly when
\* released_amount + amount > total_amount; it succeeds when the sum equals
\* total_amount.
C3_ExceedsTotalExactlyOverCap ==
    \A g \in GrantIds, m \in Symbols :
        IsPending(persistent, g, m) =>
            LET o == approve_milestone(persistent[g].admin, g, m)
                r == persistent[g].released_amount
                a == persistent[MilestoneKey(g, m)].amount
                t == persistent[g].total_amount
            IN /\ (r + a > t) <=>
                      /\ o.ret = Err("approve_milestone", "Exceeds total grant amount")
                      /\ o.persistent = persistent
               /\ (r + a = t) => o.ret.kind = "ok"

\* C4: released_amount of a grant never decreases in any step, and it changes
\* only in a successful approve_milestone.
C4_MonotonicRelease ==
    [][ \A g \in GrantIds :
          /\ persistent'[g].kind = "grant"
          /\ persistent'[g].released_amount >= persistent[g].released_amount
          /\ persistent'[g].released_amount # persistent[g].released_amount =>
                (ret'.fn = "approve_milestone" /\ ret'.kind = "ok")
      ]_vars

\* C5: a successful approve_milestone(grant_id, milestone_id) sets the status
\* of that milestone to Released, adds exactly the milestone's amount to the
\* grant's released_amount, returns that amount and changes nothing else.
C5_ApproveEffect ==
    \A c \in Addresses, g \in Symbols, m \in Symbols :
        LET o == approve_milestone(c, g, m)
            k == MilestoneKey(g, m)
        IN o.ret.kind = "ok" =>
              /\ o.ret.val = persistent[k].amount
              /\ o.persistent[k] = [persistent[k] EXCEPT !.status = Released]
              /\ o.persistent[g] =
                    [persistent[g] EXCEPT !.released_amount = @ + persistent[k].amount]
              /\ \A x \in Keys \ {k, g} : o.persistent[x] = persistent[x]

\* C6: for every grant the sum of the amounts of its Released milestones never
\* exceeds total_amount.
C6_ReleasedSumWithinTotal ==
    \A g \in GrantIds : ReleasedSum(g) <= persistent[g].total_amount

\* C7: create_grant with an id that exists fails (with "Grant already exists"
\* when the admin argument authorized the call) and leaves the stored record
\* unchanged; with a fresh id and authorization it stores the grant with
\* released_amount = 0, changes nothing else and returns the id.
C7_CreateGrant ==
    \A c \in Addresses, g \in Symbols, a \in Admins, e \in Grantees,
       t \in Totals :
        LET o == create_grant(c, g, a, e, t)
        IN IF has(g)
           THEN /\ o.persistent = persistent
                /\ o.ret.kind # "ok"
                /\ (c = a => o.ret = Err("create_grant", "Grant already exists"))
           ELSE c = a =>
                /\ o.persistent = [persistent EXCEPT ![g] = Grant(a, e, t, 0)]
                /\ o.ret.kind = "ok"
                /\ o.ret.val = g

\* C7 witness: a duplicate create_grant has been refused while every grant id
\* holds a grant that has already released funds.
C7_Witness ==
    /\ ret = Err("create_grant", "Grant already exists")
    /\ \A g \in Symbols : has(g) /\ persistent[g].released_amount # 0

\* C8: add_milestone fails with "Grant not found" when the grant is absent and
\* writes nothing; fails (with "Milestone already exists" when authorized)
\* when the pair exists, leaving the milestone as it is; and otherwise, when
\* authorized, stores the milestone as Pending with the given amount and
\* leaves every other record, the grant included, unchanged.
C8_AddMilestone ==
    \A c \in Addresses, g \in Symbols, m \in Symbols, a \in Amounts,
       d \in Descriptions :
        LET o == add_milestone(c, g, m, a, d)
        IN IF ~has(g)
           THEN /\ o.persistent = persistent
                /\ o.ret = Err("add_milestone", "Grant not found")
           ELSE IF IsMilestone(persistent, g, m)
           THEN /\ o.persistent = persistent
                /\ o.ret.kind # "ok"
                /\ (c = persistent[g].admin =>
                      o.ret = Err("add_milestone", "Milestone already exists"))
           ELSE c = persistent[g].admin =>
                /\ o.persistent = [persistent EXCEPT
                                     ![MilestoneKey(g, m)] = Milestone(a, Pending, d)]
                /\ o.ret.kind = "ok"

\* C8 witness: add_milestone has been refused for an existing pair while
\* every stored milestone is Released.
C8_Witness ==
    /\ ret = Err("add_milestone", "Milestone already exists")
    /\ StoredMilestones # {}
    /\ \A k \in StoredMilestones : persistent[k].status = Released

\* C9: the status of a stored milestone is Pending or Released, never
\* Approved; in every step a milestone stays stored with the same amount, its
\* status changes only from Pending to Released, and a Released milestone does
\* not change at all.
C9_StatusLifecycle ==
    /\ [](\A k \in StoredMilestones : persistent[k].status \in {Pending, Released})
    /\ [][ \A k \in StoredMilestones :
             /\ persistent'[k].kind = "milestone"
             /\ persistent'[k].amount = persistent[k].amount
             /\ persistent'[k].status # persistent[k].status =>
                   (persistent[k].status = Pending /\ persistent'[k].status = Released)
             /\ persistent[k].status = Released => persistent'[k] = persistent[k]
         ]_vars

\* C9 witness: one milestone has been released by a successful approval while
\* another one is still Pending.
C9_Witness ==
    /\ ret.fn = "approve_milestone"
    /\ ret.kind = "ok"
    /\ \E k \in StoredMilestones : persistent[k].status = Released
    /\ \E k \in StoredMilestones : persistent[k].status = Pending

\* C10: for an existing grant get_remaining_amount returns
\* total_amount - released_amount, which with get_released_amount adds up to
\* the total_amount the grant was created with, and the read accessors write
\* nothing.
C10_RemainingAmount ==
    /\ \A g \in GrantIds :
          LET rem == get_remaining_amount(g)
              rel == get_released_amount(g)
          IN /\ rem.ret.kind = "ok"
             /\ rem.ret.val = persistent[g].total_amount - persistent[g].released_amount
             /\ rel.ret.kind = "ok"
             /\ rel.ret.val + rem.ret.val = persistent[g].total_amount
    /\ \A g \in Symbols, m \in Symbols :
          /\ get_grant(g).persistent = persistent
          /\ get_released_amount(g).persistent = persistent
          /\ get_remaining_amount(g).persistent = persistent
          /\ get_milestone(g, m).persistent = persistent

(***************************************************************************)
(* Part II: the streaming contract, src/lib.rs.                            *)
(***************************************************************************)
\* u64 is scaled down with i128: `x as i128` is exact for every u64 x.
U64_MAX == 2 ^ (IntBits - 1) - 1
U64 == 0 .. U64_MAX

\* The value a u64 register holds after an overflowing result.
WrapU64(x) == x % (U64_MAX + 1)

\* Inputs of the calls.
Contract == "contract"
Tokens == {"token"}
Arbiters == {"dave"}
\* Each caller holds one role and is a stranger to the other two.
Callers == Admins \cup Grantees \cup Arbiters
Deposits == {-1, 3}
FlowRates == {-1, 2}
Timestamps == 0 .. MaxTime
\* Grant numbers the calls are made with: 0 is never minted, 1 and 2 are the
\* first two grants.
GrantNumbers == {0, 1, 2}

\* An optional value of the instance store: << >> when the key is absent.
None == << >>
Some(v) == <<v>>
unwrap_or(opt, default) == IF opt = None THEN default ELSE opt[1]

StreamGrant(admin, grantee, flow_rate, balance, last_claim_time, is_paused, token, dispute_active) ==
    [kind |-> "grant", admin |-> admin, grantee |-> grantee,
     flow_rate |-> flow_rate, balance |-> balance,
     last_claim_time |-> last_claim_time, is_paused |-> is_paused,
     token |-> token, dispute_active |-> dispute_active]

\* DataKey::Grant(u64), DataKey::Count and DataKey::Arbiter.
EmptyInstance ==
    [grants |-> [n \in GrantNumbers |-> Absent], count |-> None, arbiter |-> None]

NoTransfer == << >>
\* client.transfer(from, to, amount) on the token.
Transfer(token, from, to, amount) == <<token, from, to, amount>>

\* The outcome of a call: the instance store it leaves, what it returns and
\* the token transfer it made.
StreamOutcome(inst, r, t) == [instance |-> inst, ret |-> r, transfer |-> t]

\* The call panics: the host rolls everything back.
Panic(fn, msg) == StreamOutcome(instance, Trap(fn, msg), NoTransfer)

\* ensure_sufficient_ttl extends the lifetime of the instance entry; it reads
\* and writes none of the data kept there.
ensure_sufficient_ttl(inst) == inst

has_grant(grant_id) == instance.grants[grant_id] # Absent

(***************************************************************************)
(* set_arbiter                                                             *)
(***************************************************************************)
\* set_arbiter without the check for an arbiter already set.
set_arbiter_overwrite(caller, admin, arbiter) ==
    IF caller # admin THEN Panic("set_arbiter", "AuthorizationFailure")
    ELSE StreamOutcome([ensure_sufficient_ttl(instance) EXCEPT
                          !.arbiter = Some(arbiter)],
                       Ok("set_arbiter", << >>, NoEvent), NoTransfer)

set_arbiter(caller, admin, arbiter) ==
    IF caller # admin THEN Panic("set_arbiter", "AuthorizationFailure")
    ELSE IF instance.arbiter # None THEN Panic("set_arbiter", "Arbiter already set")
    ELSE StreamOutcome([ensure_sufficient_ttl(instance) EXCEPT
                          !.arbiter = Some(arbiter)],
                       Ok("set_arbiter", << >>, NoEvent), NoTransfer)

(***************************************************************************)
(* set_dispute_state                                                       *)
(***************************************************************************)
\* set_dispute_state without the arbiter's authorization.
set_dispute_state_no_auth(caller, grant_id, active) ==
    IF instance.arbiter = None THEN Panic("set_dispute_state", "No arbiter set")
    ELSE IF ~has_grant(grant_id) THEN Panic("set_dispute_state", "Grant not found")
    ELSE StreamOutcome([ensure_sufficient_ttl(instance) EXCEPT
                          !.grants[grant_id].dispute_active = active],
                       Ok("set_dispute_state", << >>, NoEvent), NoTransfer)

set_dispute_state(caller, grant_id, active) ==
    IF instance.arbiter = None THEN Panic("set_dispute_state", "No arbiter set")
    ELSE IF caller # instance.arbiter[1]
         THEN Panic("set_dispute_state", "AuthorizationFailure")
    ELSE IF ~has_grant(grant_id) THEN Panic("set_dispute_state", "Grant not found")
    ELSE StreamOutcome([ensure_sufficient_ttl(instance) EXCEPT
                          !.grants[grant_id].dispute_active = active],
                       Ok("set_dispute_state", << >>, NoEvent), NoTransfer)

(***************************************************************************)
(* create_grant (streaming)                                                *)
(***************************************************************************)
\* count += 1 on u64.
NextCount == unwrap_or(instance.count, 0) + 1

\* create_grant storing the new count although the token refused the deposit.
stream_create_grant_keeps_count(caller, admin, grantee, deposit, flow_rate, token, token_ok) ==
    IF caller # admin THEN Panic("create_grant", "AuthorizationFailure")
    ELSE IF NextCount > U64_MAX /\ overflow_checks
         THEN Panic("create_grant", "ArithmeticOverflow")
    ELSE IF ~token_ok
         THEN StreamOutcome([instance EXCEPT !.count = Some(WrapU64(NextCount))],
                            Trap("create_grant", "TransferFailed"), NoTransfer)
    ELSE LET count == WrapU64(NextCount) IN
         StreamOutcome([ensure_sufficient_ttl(instance) EXCEPT
                          !.grants[count] =
                              StreamGrant(admin, grantee, flow_rate, deposit,
                                          timestamp, FALSE, token, FALSE),
                          !.count = Some(count)],
                       Ok("create_grant", count, NoEvent),
                       Transfer(token, admin, Contract, deposit))

\* create_grant storing the grant under the old count.
stream_create_grant_reuses_id(caller, admin, grantee, deposit, flow_rate, token, token_ok) ==
    IF caller # admin THEN Panic("create_grant", "AuthorizationFailure")
    ELSE IF NextCount > U64_MAX /\ overflow_checks
         THEN Panic("create_grant", "ArithmeticOverflow")
    ELSE IF ~token_ok THEN Panic("create_grant", "TransferFailed")
    ELSE LET count == IF instance.count = None THEN 1 ELSE instance.count[1] IN
         StreamOutcome([ensure_sufficient_ttl(instance) EXCEPT
                          !.grants[count] =
                              StreamGrant(admin, grantee, flow_rate, deposit,
                                          timestamp, FALSE, token, FALSE),
                          !.count = Some(count)],
                       Ok("create_grant", count, NoEvent),
                       Transfer(token, admin, Contract, deposit))

\* token_ok: whether the token contract accepts the transfer of the deposit.
stream_create_grant(caller, admin, grantee, deposit, flow_rate, token, token_ok) ==
    IF caller # admin THEN Panic("create_grant", "AuthorizationFailure")
    ELSE IF NextCount > U64_MAX /\ overflow_checks
         THEN Panic("create_grant", "ArithmeticOverflow")
    ELSE IF ~token_ok THEN Panic("create_grant", "TransferFailed")
    ELSE LET count == WrapU64(NextCount) IN
         StreamOutcome([ensure_sufficient_ttl(instance) EXCEPT
                          !.grants[count] =
                              StreamGrant(admin, grantee, flow_rate, deposit,
                                          timestamp, FALSE, token, FALSE),
                          !.count = Some(count)],
                       Ok("create_grant", count, NoEvent),
                       Transfer(token, admin, Contract, deposit))

(***************************************************************************)
(* withdraw                                                                *)
(***************************************************************************)
\* current_time - grant.last_claim_time on u64 (exact value).
SecondsPassed(grant) == timestamp - grant.last_claim_time

\* grant.flow_rate * seconds_passed as i128 (exact value), with the u64
\* difference wrapped when it underflowed.
AmountDue(grant) == grant.flow_rate * WrapU64(SecondsPassed(grant))

Payout(grant) ==
    LET amount_due == Wrap(AmountDue(grant)) IN
    IF grant.balance >= amount_due THEN amount_due ELSE grant.balance

\* withdraw without the two freeze checks.
withdraw_ignores_flags(caller, grant_id, token_ok) ==
    LET grant == instance.grants[grant_id]
        payout == Payout(grant)
    IN
    IF ~has_grant(grant_id) THEN Panic("withdraw", "Grant not found")
    ELSE IF caller # grant.grantee THEN Panic("withdraw", "AuthorizationFailure")
    ELSE IF SecondsPassed(grant) < 0 /\ overflow_checks
         THEN Panic("withdraw", "ArithmeticOverflow")
    ELSE IF Traps(AmountDue(grant)) THEN Panic("withdraw", "ArithmeticOverflow")
    ELSE IF payout > 0
         THEN IF ~token_ok THEN Panic("withdraw", "TransferFailed")
              ELSE StreamOutcome(
                       [ensure_sufficient_ttl(instance) EXCEPT
                          !.grants[grant_id].balance = grant.balance - payout,
                          !.grants[grant_id].last_claim_time = timestamp],
                       Ok("withdraw", << >>, NoEvent),
                       Transfer(grant.token, Contract, grant.grantee, payout))
    ELSE StreamOutcome(ensure_sufficient_ttl(instance),
                       Ok("withdraw", << >>, NoEvent), NoTransfer)

\* withdraw applying every non-zero payout.
withdraw_pays_nonzero(caller, grant_id, token_ok) ==
    LET grant == instance.grants[grant_id]
        payout == Payout(grant)
    IN
    IF ~has_grant(grant_id) THEN Panic("withdraw", "Grant not found")
    ELSE IF caller # grant.grantee THEN Panic("withdraw", "AuthorizationFailure")
    ELSE IF grant.is_paused THEN Panic("withdraw", "Grant PAUSED by admin")
    ELSE IF grant.dispute_active
         THEN Panic("withdraw", "Grant is under dispute - withdrawals blocked")
    ELSE IF SecondsPassed(grant) < 0 /\ overflow_checks
         THEN Panic("withdraw", "ArithmeticOverflow")
    ELSE IF Traps(AmountDue(grant)) THEN Panic("withdraw", "ArithmeticOverflow")
    ELSE IF payout # 0
         THEN IF ~token_ok THEN Panic("withdraw", "TransferFailed")
              ELSE StreamOutcome(
                       [ensure_sufficient_ttl(instance) EXCEPT
                          !.grants[grant_id].balance = grant.balance - payout,
                          !.grants[grant_id].last_claim_time = timestamp],
                       Ok("withdraw", << >>, NoEvent),
                       Transfer(grant.token, Contract, grant.grantee, payout))
    ELSE StreamOutcome(ensure_sufficient_ttl(instance),
                       Ok("withdraw", << >>, NoEvent), NoTransfer)

\* token_ok: whether the token contract accepts the transfer of the payout.
withdraw(caller, grant_id, token_ok) ==
    LET grant == instance.grants[grant_id]
        payout == Payout(grant)
    IN
    IF ~has_grant(grant_id) THEN Panic("withdraw", "Grant not found")
    ELSE IF caller # grant.grantee THEN Panic("withdraw", "AuthorizationFailure")
    ELSE IF grant.is_paused THEN Panic("withdraw", "Grant PAUSED by admin")
    ELSE IF grant.dispute_active
         THEN Panic("withdraw", "Grant is under dispute - withdrawals blocked")
    ELSE IF SecondsPassed(grant) < 0 /\ overflow_checks
         THEN Panic("withdraw", "ArithmeticOverflow")
    ELSE IF Traps(AmountDue(grant)) THEN Panic("withdraw", "ArithmeticOverflow")
    ELSE IF payout > 0
         THEN IF ~token_ok THEN Panic("withdraw", "TransferFailed")
              ELSE StreamOutcome(
                       [ensure_sufficient_ttl(instance) EXCEPT
                          !.grants[grant_id].balance = grant.balance - payout,
                          !.grants[grant_id].last_claim_time = timestamp],
                       Ok("withdraw", << >>, NoEvent),
                       Transfer(grant.token, Contract, grant.grantee, payout))
    ELSE StreamOutcome(ensure_sufficient_ttl(instance),
                       Ok("withdraw", << >>, NoEvent), NoTransfer)

(***************************************************************************)
(* set_pause                                                               *)
(***************************************************************************)
\* set_pause restarting the accrual clock.
set_pause_resets_clock(caller, grant_id, pause_state) ==
    LET grant == instance.grants[grant_id] IN
    IF ~has_grant(grant_id) THEN Panic("set_pause", "Grant not found")
    ELSE IF caller # grant.admin THEN Panic("set_pause", "AuthorizationFailure")
    ELSE StreamOutcome([ensure_sufficient_ttl(instance) EXCEPT
                          !.grants[grant_id].is_paused = pause_state,
                          !.grants[grant_id].last_claim_time = timestamp],
                       Ok("set_pause", << >>, NoEvent), NoTransfer)

set_pause(caller, grant_id, pause_state) ==
    LET grant == instance.grants[grant_id] IN
    IF ~has_grant(grant_id) THEN Panic("set_pause", "Grant not found")
    ELSE IF caller # grant.admin THEN Panic("set_pause", "AuthorizationFailure")
    ELSE StreamOutcome([ensure_sufficient_ttl(instance) EXCEPT
                          !.grants[grant_id].is_paused = pause_state],
                       Ok("set_pause", << >>, NoEvent), NoTransfer)

(***************************************************************************)
(* The streaming contract as a state machine.  The ledger closes between   *)
(* calls and its timestamp moves forward; in StreamRegressSpec the         *)
(* timestamp may also move backward.                                       *)
(*                                                                         *)
(* history is an observer of the calls: per grant number, the deposit the  *)
(* token moved into the contract at creation, the sum of the payouts the   *)
(* token moved to the grantee, the time of creation or of the last payout, *)
(* and whether time has passed while the grant was frozen since then.  It  *)
(* is kept only under HistorySpec (history.on); no handler reads it.       *)
(***************************************************************************)
NoHistory ==
    [on |-> FALSE,
     deposited |-> [n \in GrantNumbers |-> 0],
     paid |-> [n \in GrantNumbers |-> 0],
     paid_at |-> [n \in GrantNumbers |-> 0],
     frozen |-> [n \in GrantNumbers |-> FALSE]]

\* After create_grant with outcome o.
RecordCreate(o) ==
    IF history.on /\ o.ret.kind = "ok"
    THEN [history EXCEPT !.deposited[o.ret.val] = o.transfer[4],
                         !.paid_at[o.ret.val] = timestamp]
    ELSE history

\* After withdraw(grant_id) with outcome o.
RecordWithdraw(grant_id, o) ==
    IF history.on /\ o.transfer # NoTransfer
    THEN [history EXCEPT !.paid[grant_id] = @ + o.transfer[4],
                         !.paid_at[grant_id] = timestamp,
                         !.frozen[grant_id] = FALSE]
    ELSE history

\* After the timestamp moved forward.
RecordClose ==
    IF history.on
    THEN [history EXCEPT
            !.frozen = [n \in GrantNumbers |->
                          \/ @[n]
                          \/ /\ has_grant(n)
                             /\ \/ instance.grants[n].is_paused
                                \/ instance.grants[n].dispute_active]]
    ELSE history

StreamInit ==
    /\ persistent = [k \in Keys |-> Absent]
    /\ ret = Ok("none", << >>, NoEvent)
    /\ overflow_checks \in BOOLEAN
    /\ instance = EmptyInstance
    /\ timestamp = 0
    /\ transfer = NoTransfer
    /\ history = NoHistory

HistoryInit ==
    /\ persistent = [k \in Keys |-> Absent]
    /\ ret = Ok("none", << >>, NoEvent)
    /\ overflow_checks \in BOOLEAN
    /\ instance = EmptyInstance
    /\ timestamp = 0
    /\ transfer = NoTransfer
    /\ history = [NoHistory EXCEPT !.on = TRUE]

SetArbiter ==
    \E caller \in Callers, admin \in Admins, arbiter \in Arbiters :
        LET o == set_arbiter(caller, admin, arbiter)
        IN /\ instance' = o.instance
           /\ ret' = o.ret
           /\ transfer' = o.transfer
           /\ UNCHANGED <<persistent, overflow_checks, timestamp, history>>

SetDisputeState ==
    \E caller \in Callers, grant_id \in GrantNumbers, active \in BOOLEAN :
        LET o == set_dispute_state(caller, grant_id, active)
        IN /\ instance' = o.instance
           /\ ret' = o.ret
           /\ transfer' = o.transfer
           /\ UNCHANGED <<persistent, overflow_checks, timestamp, history>>

\* A call that would mint a number outside GrantNumbers is left out.
StreamCreateGrant ==
    \E caller \in Callers, admin \in Admins, grantee \in Grantees,
       deposit \in Deposits, flow_rate \in FlowRates, token \in Tokens,
       token_ok \in BOOLEAN :
        LET o == stream_create_grant(caller, admin, grantee, deposit, flow_rate,
                                     token, token_ok)
        IN /\ NextCount \in GrantNumbers
           /\ instance' = o.instance
           /\ ret' = o.ret
           /\ transfer' = o.transfer
           /\ history' = RecordCreate(o)
           /\ UNCHANGED <<persistent, overflow_checks, timestamp>>

Withdraw ==
    \E caller \in Callers, grant_id \in GrantNumbers, token_ok \in BOOLEAN :
        LET o == withdraw(caller, grant_id, token_ok)
        IN /\ instance' = o.instance
           /\ ret' = o.ret
           /\ transfer' = o.transfer
           /\ history' = RecordWithdraw(grant_id, o)
           /\ UNCHANGED <<persistent, overflow_checks, timestamp>>

SetPause ==
    \E caller \in Callers, grant_id \in GrantNumbers, pause_state \in BOOLEAN :
        LET o == set_pause(caller, grant_id, pause_state)
        IN /\ instance' = o.instance
           /\ ret' = o.ret
           /\ transfer' = o.transfer
           /\ UNCHANGED <<persistent, overflow_checks, timestamp, history>>

\* The ledger closes: the timestamp moves forward.
LedgerClose ==
    /\ \E t \in Timestamps : t > timestamp /\ timestamp' = t
    /\ history' = RecordClose
    /\ UNCHANGED <<persistent, ret, overflow_checks, instance, transfer>>

\* The clock regresses.
LedgerRegress ==
    /\ \E t \in Timestamps : t < timestamp /\ timestamp' = t
    /\ UNCHANGED <<persistent, ret, overflow_checks, instance, transfer, history>>

StreamNext ==
    \/ SetArbiter
    \/ SetDisputeState
    \/ StreamCreateGrant
    \/ Withdraw
    \/ SetPause
    \/ LedgerClose

StreamSpec == StreamInit /\ [][StreamNext]_vars

StreamRegressNext ==
    \/ SetArbiter
    \/ SetDisputeState
    \/ StreamCreateGrant
    \/ Withdraw
    \/ SetPause
    \/ LedgerClose
    \/ LedgerRegress

StreamRegressSpec == StreamInit /\ [][StreamRegressNext]_vars

\* StreamSpec with the history kept.
HistorySpec == HistoryInit /\ [][StreamNext]_vars

StreamGrants == { n \in GrantNumbers : has_grant(n) }

StreamTypeOK ==
    /\ instance.count \in {None} \cup { Some(n) : n \in U64 }
    /\ instance.arbiter \in {None} \cup { Some(a) : a \in Arbiters }
    /\ timestamp \in Timestamps
    /\ \A n \in StreamGrants :
          /\ instance.grants[n].balance \in I128
          /\ instance.grants[n].last_claim_time \in Timestamps

(***************************************************************************)
(* Properties of the streaming contract.                                   *)
(***************************************************************************)
Frozen(grant) == grant.is_paused \/ grant.dispute_active

Min(a, b) == IF a <= b THEN a ELSE b

\* C11: withdraw by the grantee on an unfrozen grant pays
\* payout = min(flow_rate * (now - last_claim_time), balance): when payout > 0
\* it transfers exactly payout to the grantee, lowers balance by payout and
\* sets last_claim_time to now, leaving every other field unchanged; otherwise
\* it changes nothing.
C11_WithdrawPayout ==
    \A n \in StreamGrants :
        LET grant == instance.grants[n]
            o == withdraw(grant.grantee, n, TRUE)
            payout == Min(grant.flow_rate * (timestamp - grant.last_claim_time),
                          grant.balance)
        IN ~Frozen(grant) =>
              /\ o.ret.kind = "ok"
              /\ IF payout > 0
                 THEN /\ o.transfer = Transfer(grant.token, Contract, grant.grantee, payout)
                      /\ o.instance =
                            [instance EXCEPT
                               !.grants[n].balance = grant.balance - payout,
                               !.grants[n].last_claim_time = timestamp]
                 ELSE /\ o.transfer = NoTransfer
                      /\ o.instance = instance

\* C12: while is_paused or dispute_active is set, withdraw on the grant
\* panics (with the pause or the dispute message when the grantee authorized
\* the call), orders no transfer and changes nothing; a withdraw that orders
\* a transfer runs on a grant with both flags false.
C12_FreezeGating ==
    \A n \in StreamGrants, c \in Callers, token_ok \in BOOLEAN :
        LET grant == instance.grants[n]
            o == withdraw(c, n, token_ok)
        IN /\ Frozen(grant) =>
                 /\ o.ret.kind = "trap"
                 /\ o.transfer = NoTransfer
                 /\ o.instance = instance
                 /\ c = grant.grantee =>
                       o.ret.err \in {"Grant PAUSED by admin",
                                      "Grant is under dispute - withdrawals blocked"}
           /\ o.transfer # NoTransfer =>
                 (~grant.is_paused /\ ~grant.dispute_active)

\* C12 witness: a withdraw has been refused for the dispute on a grant (every
\* stored grant is under dispute, not paused) that would otherwise pay.
C12_Witness ==
    /\ ret = Trap("withdraw", "Grant is under dispute - withdrawals blocked")
    /\ StreamGrants # {}
    /\ \A n \in StreamGrants :
          /\ instance.grants[n].dispute_active
          /\ ~instance.grants[n].is_paused
          /\ instance.grants[n].flow_rate > 0
          /\ instance.grants[n].balance > 0
          /\ timestamp > instance.grants[n].last_claim_time

\* C13: every stored grant has balance >= 0, whatever deposit and flow_rate it
\* was created with, and every payout withdraw transfers is at most the
\* balance held before the call.
C13_BalanceNonNegative ==
    \A n \in StreamGrants :
        /\ instance.grants[n].balance >= 0
        /\ \A c \in Callers, token_ok \in BOOLEAN :
              LET o == withdraw(c, n, token_ok)
              IN o.transfer # NoTransfer =>
                    o.transfer[4] <= instance.grants[n].balance

\* C14: while no arbiter is stored an authorized set_arbiter stores its
\* argument; once one is stored every set_arbiter, by any caller and with any
\* argument, panics and writes nothing; and no step changes a stored arbiter.
C14_SetOnceArbiter ==
    /\ [](\A c \in Callers, a \in Callers, arbiter \in Callers :
            LET o == set_arbiter(c, a, arbiter)
            IN IF instance.arbiter = None
               THEN c = a =>
                    /\ o.ret.kind = "ok"
                    /\ o.instance = [instance EXCEPT !.arbiter = Some(arbiter)]
               ELSE /\ o.ret.kind = "trap"
                    /\ o.instance = instance
                    /\ (c = a => o.ret = Trap("set_arbiter", "Arbiter already set")))
    /\ [][instance.arbiter # None => instance'.arbiter = instance.arbiter]_vars

\* C14 witness: a second set_arbiter has been refused.
C14_Witness ==
    /\ ret = Trap("set_arbiter", "Arbiter already set")
    /\ instance.arbiter = Some("dave")

\* C15: a successful set_pause(grant_id, p) changes is_paused of that grant
\* and nothing else, and a successful set_dispute_state(grant_id, a) changes
\* dispute_active of that grant and nothing else: no other field, no other
\* grant, not the Count, not the Arbiter, and no transfer is ordered.
C15_FlagIndependence ==
    \A n \in StreamGrants, c \in Callers, flag \in BOOLEAN :
        LET p == set_pause(c, n, flag)
            d == set_dispute_state(c, n, flag)
        IN /\ c = instance.grants[n].admin => p.ret.kind = "ok"
           /\ p.ret.kind = "ok" =>
                 /\ p.instance = [instance EXCEPT !.grants[n].is_paused = flag]
                 /\ p.transfer = NoTransfer
           /\ instance.arbiter = Some(c) => d.ret.kind = "ok"
           /\ d.ret.kind = "ok" =>
                 /\ d.instance = [instance EXCEPT !.grants[n].dispute_active = flag]
                 /\ d.transfer = NoTransfer

\* C15 witness: with two grants stored, one has been put under dispute while
\* it is paused and has accrued, and the other one is neither.
C15_Witness ==
    /\ ret = Ok("set_dispute_state", << >>, NoEvent)
    /\ StreamGrants = {1, 2}
    /\ \E n \in StreamGrants, m \in StreamGrants :
          /\ instance.grants[n].dispute_active
          /\ instance.grants[n].is_paused
          /\ instance.grants[n].last_claim_time < timestamp
          /\ ~instance.grants[m].dispute_active
          /\ ~instance.grants[m].is_paused

\* C16: set_dispute_state panics and writes nothing when no arbiter is set,
\* when the caller is not the stored arbiter or when the grant does not
\* exist; dispute_active of a stored grant changes only in a successful
\* set_dispute_state; and no caller can withdraw from a grant under dispute.
C16_OnlyArbiterControlsDispute ==
    /\ [](\A c \in Callers, n \in GrantNumbers, active \in BOOLEAN :
            LET o == set_dispute_state(c, n, active)
            IN /\ (instance.arbiter # Some(c) \/ ~has_grant(n)) =>
                     /\ o.ret.kind = "trap"
                     /\ o.instance = instance
               /\ instance.arbiter = None =>
                     o.ret = Trap("set_dispute_state", "No arbiter set")
               /\ (instance.arbiter = Some(c) /\ ~has_grant(n)) =>
                     o.ret = Trap("set_dispute_state", "Grant not found"))
    /\ [](\A n \in StreamGrants, c \in Callers, token_ok \in BOOLEAN :
            instance.grants[n].dispute_active =>
               withdraw(c, n, token_ok).transfer = NoTransfer)
    /\ [][\A n \in StreamGrants :
            instance'.grants[n].dispute_active # instance.grants[n].dispute_active
               => ret' = Ok("set_dispute_state", << >>, NoEvent)]_vars

\* C16 witness: a caller who is not the arbiter has been refused while a
\* grant is under dispute.
C16_Witness ==
    /\ ret = Trap("set_dispute_state", "AuthorizationFailure")
    /\ instance.arbiter = Some("dave")
    /\ \E n \in StreamGrants : instance.grants[n].dispute_active

\* C17: create_grant whose token transfer fails stores no grant, leaves the
\* Count as it was and returns no identifier; an authorized create_grant
\* whose transfer succeeds moves deposit from admin to the contract and
\* stores exactly one new grant, with balance = deposit, last_claim_time =
\* now and both flags false, under the identifier it returns.
C17_CreateGrantAtomic ==
    \A c \in Callers, admin \in Admins, grantee \in Grantees,
       deposit \in Deposits, flow_rate \in FlowRates, token \in Tokens :
        LET failed == stream_create_grant(c, admin, grantee, deposit, flow_rate,
                                          token, FALSE)
            o == stream_create_grant(c, admin, grantee, deposit, flow_rate,
                                     token, TRUE)
            n == NextCount
        IN n \in GrantNumbers =>
              /\ failed.ret.kind = "trap"
              /\ failed.instance = instance
              /\ failed.transfer = NoTransfer
              /\ c = admin => o.ret.kind = "ok"
              /\ o.ret.kind = "ok" =>
                    /\ o.ret.val = n
                    /\ ~has_grant(n)
                    /\ o.transfer = Transfer(token, admin, Contract, deposit)
                    /\ o.instance =
                          [instance EXCEPT
                             !.grants[n] = StreamGrant(admin, grantee, flow_rate,
                                                       deposit, timestamp, FALSE,
                                                       token, FALSE),
                             !.count = Some(n)]

\* C17 witness: after one grant was created, a create_grant has failed on its
\* token transfer and the Count still names one grant.
C17_Witness ==
    /\ ret = Trap("create_grant", "TransferFailed")
    /\ instance.count = Some(1)
    /\ StreamGrants = {1}

\* C18: when the ledger timestamp is earlier than last_claim_time, withdraw
\* by the grantee on an unfrozen grant takes the elapsed time as zero and
\* returns without a transfer and without changing the grant.
C18_ClockRegressionSaturates ==
    \A n \in StreamGrants, token_ok \in BOOLEAN :
        LET grant == instance.grants[n]
            o == withdraw(grant.grantee, n, token_ok)
        IN (~Frozen(grant) /\ timestamp < grant.last_claim_time) =>
              /\ o.ret.kind = "ok"
              /\ o.transfer = NoTransfer
              /\ o.instance = instance

\* C19 as stated: on an unfrozen grant with flow_rate < 0 and time elapsed,
\* withdraw by the grantee orders a transfer and raises the balance.
C19_NegativeRateInverts ==
    \A n \in StreamGrants :
        LET grant == instance.grants[n]
            o == withdraw(grant.grantee, n, TRUE)
        IN (~Frozen(grant) /\ grant.flow_rate < 0
              /\ timestamp > grant.last_claim_time) =>
              /\ o.transfer # NoTransfer
              /\ o.instance.grants[n].balance > grant.balance

\* C19: on a grant with flow_rate < 0, withdraw never orders a transfer of an
\* amount that is not positive and never raises the balance; whenever the
\* amount due it computed is not positive a successful call orders no
\* transfer and changes nothing, and the grantee's call on an unfrozen grant
\* succeeds in that way when time has elapsed and the product fits in i128.
C19_NegativeRateNoOp ==
    \A n \in StreamGrants, c \in Callers, token_ok \in BOOLEAN :
        LET grant == instance.grants[n]
            o == withdraw(c, n, token_ok)
        IN grant.flow_rate < 0 =>
              /\ o.transfer # NoTransfer => o.transfer[4] > 0
              /\ o.instance.grants[n].balance <= grant.balance
              /\ (o.ret.kind = "ok" /\ Wrap(AmountDue(grant)) <= 0) =>
                    /\ o.transfer = NoTransfer
                    /\ o.instance = instance
              /\ (c = grant.grantee /\ ~Frozen(grant)
                    /\ timestamp >= grant.last_claim_time
                    /\ ~Overflows(AmountDue(grant))) =>
                    /\ o.ret = Ok("withdraw", << >>, NoEvent)
                    /\ o.transfer = NoTransfer
                    /\ o.instance = instance

\* C19 witness: a withdraw has returned without a transfer while every stored
\* grant is unfrozen, holds a balance, has flow_rate < 0 and time has elapsed.
C19_Witness ==
    /\ ret = Ok("withdraw", << >>, NoEvent)
    /\ transfer = NoTransfer
    /\ StreamGrants # {}
    /\ \A n \in StreamGrants :
          /\ instance.grants[n].flow_rate < 0
          /\ instance.grants[n].balance > 0
          /\ ~Frozen(instance.grants[n])
          /\ timestamp > instance.grants[n].last_claim_time

\* C20: the Count, read as 0 while absent, is the number of grants stored,
\* and the stored identifiers are 1 .. Count; a successful create_grant
\* returns Count + 1, an identifier no grant is stored under; no step lowers
\* the Count, removes a grant, or lets create_grant change a stored grant.
C20_IdentifierMinting ==
    /\ [](/\ unwrap_or(instance.count, 0) = Cardinality(StreamGrants)
          /\ StreamGrants = 1 .. unwrap_or(instance.count, 0))
    /\ [](\A c \in Callers, admin \in Admins, grantee \in Grantees,
             deposit \in Deposits, flow_rate \in FlowRates, token \in Tokens :
            LET o == stream_create_grant(c, admin, grantee, deposit, flow_rate,
                                         token, TRUE)
            IN (NextCount \in GrantNumbers /\ o.ret.kind = "ok") =>
                  /\ o.ret.val = unwrap_or(instance.count, 0) + 1
                  /\ ~has_grant(o.ret.val)
                  /\ o.instance.count = Some(o.ret.val))
    /\ [][/\ unwrap_or(instance'.count, 0) >= unwrap_or(instance.count, 0)
          /\ \A n \in StreamGrants :
                /\ instance'.grants[n] # Absent
                /\ ret'.fn = "create_grant" =>
                      instance'.grants[n] = instance.grants[n]]_vars

\* C20 witness: the second create_grant has returned 2 and grants 1 and 2 are
\* stored.
C20_Witness ==
    /\ ret = Ok("create_grant", 2, NoEvent)
    /\ instance.count = Some(2)
    /\ StreamGrants = {1, 2}

\* C21: for every stored grant, balance plus the payouts transferred to the
\* grantee so far equals the deposit transferred in at creation, so the
\* total paid never exceeds the deposit; and no call other than withdraw
\* changes the balance of a stored grant.
C21_ConservationOfCustody ==
    \A n \in StreamGrants :
        /\ instance.grants[n].balance + history.paid[n] = history.deposited[n]
        /\ history.paid[n] <= history.deposited[n]
        /\ \A c \in Callers, flag \in BOOLEAN, token_ok \in BOOLEAN :
              /\ set_pause(c, n, flag).instance.grants[n].balance
                    = instance.grants[n].balance
              /\ set_dispute_state(c, n, flag).instance.grants[n].balance
                    = instance.grants[n].balance
              /\ \A arbiter \in Arbiters :
                    set_arbiter(c, c, arbiter).instance.grants[n].balance
                       = instance.grants[n].balance
              /\ \A grantee \in Grantees, deposit \in Deposits,
                    flow_rate \in FlowRates, token \in Tokens :
                    stream_create_grant(c, c, grantee, deposit, flow_rate, token,
                                        token_ok).instance.grants[n].balance
                       = instance.grants[n].balance

\* C22: last_claim_time of a stored grant is the time of its creation or of
\* its last paying withdraw: set_pause, set_dispute_state and a withdraw
\* that pays nothing leave it as it was; and once time has passed while the
\* grant was frozen, withdraw by the grantee on the unfrozen grant at time t
\* pays min(flow_rate * (t - last_claim_time), balance), which counts the
\* frozen interval, and sets last_claim_time to t when that is positive.
C22_FreezingDefersAccrual ==
    \A n \in StreamGrants :
        LET grant == instance.grants[n]
            o == withdraw(grant.grantee, n, TRUE)
            payout == Min(grant.flow_rate * (timestamp - history.paid_at[n]),
                          grant.balance)
        IN /\ grant.last_claim_time = history.paid_at[n]
           /\ \A c \in Callers, flag \in BOOLEAN, token_ok \in BOOLEAN :
                 /\ set_pause(c, n, flag).instance.grants[n].last_claim_time
                       = grant.last_claim_time
                 /\ set_dispute_state(c, n, flag).instance.grants[n].last_claim_time
                       = grant.last_claim_time
                 /\ withdraw(c, n, token_ok).transfer = NoTransfer =>
                       withdraw(c, n, token_ok).instance.grants[n].last_claim_time
                          = grant.last_claim_time
           /\ (history.frozen[n] /\ ~Frozen(grant)) =>
                 /\ o.ret.kind = "ok"
                 /\ IF payout > 0
                    THEN /\ o.transfer = Transfer(grant.token, Contract,
                                                  grant.grantee, payout)
                         /\ o.instance.grants[n].last_claim_time = timestamp
                         /\ o.instance.grants[n].balance = grant.balance - payout
                    ELSE /\ o.transfer = NoTransfer
                         /\ o.instance = instance

====
